---- MODULE Spec2Model ----
(***************************************************************************)
(* The contract deployer allow list of precompile/allow_list.go: the role  *)
(* model, the role store adapter on top of the host StateDB, and the two   *)
(* stateful precompiles (modify / read) together with Configure.           *)
(*                                                                         *)
(* Byte strings are sequences of integers 0..255, Go's arrays common.Hash  *)
(* and common.Address are sequences of the fixed lengths HashLength and    *)
(* AddressLength.  A nil byte slice and an empty one are both <<>>.        *)
(***************************************************************************)
EXTENDS Integers, Sequences, FiniteSets, TLC

VARIABLES
    state,          \* the host StateDB: <<contract address, key>> -> hash, set slots only
    op,             \* the entry point that has just run: "configure", "modify", "read",
                    \* "role" for the three role predicates, "pack" for
                    \* PackModifyAllowList;
                    \* "none" while the host is between two calls
    callerAddr,     \* arguments of that call
    input,
    suppliedGas,
    readOnly,
    ret,            \* results of that call
    remainingGas,
    err,
    args,           \* arguments of a call that is not a Run call: Configure's admin list,
                    \* the role word handed to the role predicates, the address and
                    \* the role handed to PackModifyAllowList
    seq,            \* how the call was dispatched: "fresh" after the host took the previous
                    \* results, "repeat" the same Modify Role call again, "next" a further
                    \* Modify Role call directly after a successful one
    lastWrite       \* history: address -> role of the latest successful write to it

vars == <<state, op, callerAddr, input, suppliedGas, readOnly, ret, remainingGas, err,
          args, seq, lastWrite>>

(***************************************************************************)
(* Bounds of the model.                                                    *)
(***************************************************************************)
NumAddrs == 3       \* account addresses the callers and targets are drawn from
MaxAdmins == 2      \* longest AllowListAdmins list handed to Configure
GasWidth == 16      \* bits of the gas word: uint64 in the source, narrowed here;
                    \* gas arithmetic wraps modulo 2^GasWidth

(***************************************************************************)
(* Program constants.                                                      *)
(***************************************************************************)
AddressLength == 20
HashLength == 32
modifyAllowListInputLength == AddressLength + HashLength
\* The two costs of the gas schedule; allow_list.go only names them.
ModifyAllowListGasCost == 20000
ReadAllowListGasCost == 5000

GasModulus == 2 ^ GasWidth
MaxGas == GasModulus - 1

Zeros(n) == [i \in 1..n |-> 0]

\* The Go array literals common.Hash{} and common.Hash{b}: b is element 0.
HashLit(b) == [i \in 1..HashLength |-> IF i = 1 THEN b ELSE 0]

None == Zeros(HashLength)
Deployer == HashLit(1)
Admin == HashLit(2)

\* The reserved address of the allow list's storage.
ModifyAllowListAddress == [i \in 1..AddressLength |-> IF i = 1 THEN 2 ELSE 0]

(***************************************************************************)
(* Errors, named by the spec's taxonomy; "nil" is Go's nil error.          *)
(***************************************************************************)
NoError == "nil"
ErrInsufficientGas == "InsufficientGas"      \* "running allow list exceeds gas allowance"
ErrReadOnly == "ReadOnlyViolation"           \* "cannot modify allow list in read only"
ErrUnauthorized == "Unauthorized"            \* "caller %s cannot modify allow list"
ErrMalformed == "MalformedInput"             \* "failed to unpack ..." / "invalid input length ..."
ErrUnexpectedStatus == "UnexpectedStatus"    \* "unexpected status: %d"

(***************************************************************************)
(* Role model.                                                             *)
(***************************************************************************)
ValidAcceptsAll(s) == TRUE

Valid(s) == s \in {None, Deployer, Admin}

IsAdminOrDeployer(s) == s \in {Deployer, Admin}

IsAdminNonZero(s) == s # None

IsAdmin(s) == s = Admin

CanDeployNonZero(s) == s # None

CanDeploy(s) == s \in {Deployer, Admin}

(***************************************************************************)
(* go-ethereum's common.BytesToAddress / common.BytesToHash: keep the last *)
(* n bytes of a longer slice, left-pad a shorter one with zeros.           *)
(***************************************************************************)
SetBytes(b, n) ==
    LET bb == IF Len(b) > n THEN SubSeq(b, Len(b) - n + 1, Len(b)) ELSE b
    IN  Zeros(n - Len(bb)) \o bb

BytesToAddress(b) == SetBytes(b, AddressLength)

BytesToHash(b) == SetBytes(b, HashLength)

(***************************************************************************)
(* Host state store and key derivation.                                    *)
(***************************************************************************)
\* The key of an address: the address followed by zeros up to HashLength.
CreateAddressKey(address) == address \o Zeros(HashLength - AddressLength)

\* StateDB.GetState: the zero hash when the slot is unset.
GetState(st, contract, key) ==
    IF <<contract, key>> \in DOMAIN st THEN st[<<contract, key>>] ELSE Zeros(HashLength)

\* StateDB.SetState: writing the zero hash deletes the slot.
SetState(st, contract, key, value) ==
    IF value = Zeros(HashLength)
    THEN [k \in DOMAIN st \ {<<contract, key>>} |-> st[k]]
    ELSE [k \in DOMAIN st \cup {<<contract, key>>} |->
            IF k = <<contract, key>> THEN value ELSE st[k]]

(***************************************************************************)
(* Role store adapter.                                                     *)
(***************************************************************************)
GetAllowListStatus(st, address) ==
    LET stateSlot == CreateAddressKey(address)
        res == GetState(st, ModifyAllowListAddress, stateSlot)
    IN  res

setAllowListStatusKeepExisting(st, address, status) ==
    LET addressKey == CreateAddressKey(address)
    IN  IF <<ModifyAllowListAddress, addressKey>> \in DOMAIN st
        THEN st
        ELSE SetState(st, ModifyAllowListAddress, addressKey, status)

setAllowListStatusSkipNone(st, address, status) ==
    LET addressKey == CreateAddressKey(address)
    IN  IF status = None THEN st
        ELSE SetState(st, ModifyAllowListAddress, addressKey, status)

setAllowListStatusShortKey(st, address, status) ==
    LET addressKey == CreateAddressKey([address EXCEPT ![AddressLength] = 0])
    IN  SetState(st, ModifyAllowListAddress, addressKey, status)

setAllowListStatus(st, address, status) ==
    LET addressKey == CreateAddressKey(address)
    IN  SetState(st, ModifyAllowListAddress, addressKey, status)

(***************************************************************************)
(* Input decoding.                                                         *)
(***************************************************************************)
UnpackError(e) == [address |-> Zeros(AddressLength), status |-> Zeros(HashLength), err |-> e]

UnpackModifyAllowListOffByOne(in) ==
    IF Len(in) # modifyAllowListInputLength
    THEN UnpackError("unexpected address length")
    ELSE LET address == BytesToAddress(SubSeq(in, 2, AddressLength + 1))
             statusHash == BytesToHash(SubSeq(in, AddressLength + 1, Len(in)))
             status == statusHash
         IN  IF ~Valid(status)
             THEN UnpackError("invalid status used as input for allow list precompile")
             ELSE [address |-> address, status |-> statusHash, err |-> NoError]

\* The role word is handed on without asking Valid.
UnpackModifyAllowListNoValid(in) ==
    IF Len(in) # modifyAllowListInputLength
    THEN UnpackError("unexpected address length")
    ELSE LET address == BytesToAddress(SubSeq(in, 1, AddressLength))
             statusHash == BytesToHash(SubSeq(in, AddressLength + 1, Len(in)))
         IN  [address |-> address, status |-> statusHash, err |-> NoError]

UnpackModifyAllowList(in) ==
    IF Len(in) # modifyAllowListInputLength
    THEN UnpackError("unexpected address length")
    ELSE LET address == BytesToAddress(SubSeq(in, 1, AddressLength))
             statusHash == BytesToHash(SubSeq(in, AddressLength + 1, Len(in)))
             status == statusHash
         IN  IF ~Valid(status)
             THEN UnpackError("invalid status used as input for allow list precompile")
             ELSE [address |-> address, status |-> statusHash, err |-> NoError]

\* Go's copy(dst[off:], src): as many bytes as fit, the rest of dst untouched.
Copy(dst, off, src) ==
    [i \in 1..Len(dst) |-> IF i > off /\ i <= off + Len(src) THEN src[i - off] ELSE dst[i]]

PackResult(bytes, e) == [input |-> bytes, err |-> e]

\* The role word is copied to the front and the address behind it.
PackModifyAllowListStatusFirst(address, status) ==
    IF ~Valid(status)
    THEN PackResult(<<>>, ErrUnexpectedStatus)
    ELSE LET input0 == Zeros(modifyAllowListInputLength)
             input1 == Copy(input0, 0, status)
             input2 == Copy(input1, HashLength, address)
         IN  PackResult(input2, NoError)

PackModifyAllowList(address, status) ==
    IF ~Valid(status)
    THEN PackResult(<<>>, ErrUnexpectedStatus)
    ELSE LET input0 == Zeros(modifyAllowListInputLength)
             input1 == Copy(input0, 0, address)
             input2 == Copy(input1, AddressLength, status)
         IN  PackResult(input2, NoError)

(***************************************************************************)
(* AllowListConfig.Configure: one SetState per listed address, in order.   *)
(***************************************************************************)
RECURSIVE ConfigureFrom(_, _, _)
ConfigureFrom(st, admins, i) ==
    IF i > Len(admins) THEN st
    ELSE ConfigureFrom(
            SetState(st, ModifyAllowListAddress, CreateAddressKey(admins[i]), Admin),
            admins, i + 1)

ConfigureSkipFirst(st, admins) == ConfigureFrom(st, admins, 2)

Configure(st, admins) == ConfigureFrom(st, admins, 1)

(***************************************************************************)
(* The precompiles' Run methods, as functions of the store and arguments   *)
(* to the triple (ret, remainingGas, err) and the store afterwards.        *)
(***************************************************************************)
Result(r, g, e, st) == [ret |-> r, remainingGas |-> g, err |-> e, state |-> st]

modifyRunNoReadOnlyCheck(st, caller, in, gas, ro) ==
    IF gas < ModifyAllowListGasCost
    THEN Result(<<>>, 0, ErrInsufficientGas, st)
    ELSE LET remaining == (gas - ModifyAllowListGasCost) % GasModulus
             callerStatus == GetAllowListStatus(st, caller)
             unpacked == UnpackModifyAllowList(in)
         IN  IF ~IsAdmin(callerStatus)
             THEN Result(<<>>, remaining, ErrUnauthorized, st)
             ELSE IF unpacked.err # NoError
             THEN Result(<<>>, remaining, ErrMalformed, st)
             ELSE Result(<<>>, remaining, NoError,
                         setAllowListStatus(st, unpacked.address, unpacked.status))

modifyRunWriteBeforeChecks(st, caller, in, gas, ro) ==
    IF gas < ModifyAllowListGasCost
    THEN Result(<<>>, 0, ErrInsufficientGas, st)
    ELSE LET remaining == (gas - ModifyAllowListGasCost) % GasModulus
             callerStatus == GetAllowListStatus(st, caller)
             unpacked == UnpackModifyAllowList(in)
             written == IF unpacked.err # NoError THEN st
                        ELSE setAllowListStatus(st, unpacked.address, unpacked.status)
         IN  IF ro
             THEN Result(<<>>, remaining, ErrReadOnly, written)
             ELSE IF ~IsAdmin(callerStatus)
             THEN Result(<<>>, remaining, ErrUnauthorized, written)
             ELSE IF unpacked.err # NoError
             THEN Result(<<>>, remaining, ErrMalformed, written)
             ELSE Result(<<>>, remaining, NoError, written)

modifyRunNoGasCheck(st, caller, in, gas, ro) ==
    LET remaining == (gas - ModifyAllowListGasCost) % GasModulus
        callerStatus == GetAllowListStatus(st, caller)
        unpacked == UnpackModifyAllowList(in)
    IN  IF ro
        THEN Result(<<>>, remaining, ErrReadOnly, st)
        ELSE IF ~IsAdmin(callerStatus)
        THEN Result(<<>>, remaining, ErrUnauthorized, st)
        ELSE IF unpacked.err # NoError
        THEN Result(<<>>, remaining, ErrMalformed, st)
        ELSE Result(<<>>, remaining, NoError,
                    setAllowListStatus(st, unpacked.address, unpacked.status))

modifyRunRejectNoChange(st, caller, in, gas, ro) ==
    IF gas < ModifyAllowListGasCost
    THEN Result(<<>>, 0, ErrInsufficientGas, st)
    ELSE LET remaining == (gas - ModifyAllowListGasCost) % GasModulus
             callerStatus == GetAllowListStatus(st, caller)
             unpacked == UnpackModifyAllowList(in)
         IN  IF ro
             THEN Result(<<>>, remaining, ErrReadOnly, st)
             ELSE IF ~IsAdmin(callerStatus)
             THEN Result(<<>>, remaining, ErrUnauthorized, st)
             ELSE IF unpacked.err # NoError
             THEN Result(<<>>, remaining, ErrMalformed, st)
             ELSE IF GetAllowListStatus(st, unpacked.address) = unpacked.status
             THEN Result(<<>>, remaining, ErrMalformed, st)
             ELSE Result(<<>>, remaining, NoError,
                         setAllowListStatus(st, unpacked.address, unpacked.status))

modifyRunAuthBeforeReadOnly(st, caller, in, gas, ro) ==
    IF gas < ModifyAllowListGasCost
    THEN Result(<<>>, 0, ErrInsufficientGas, st)
    ELSE LET remaining == (gas - ModifyAllowListGasCost) % GasModulus
             callerStatus == GetAllowListStatus(st, caller)
             unpacked == UnpackModifyAllowList(in)
         IN  IF ~IsAdmin(callerStatus)
             THEN Result(<<>>, remaining, ErrUnauthorized, st)
             ELSE IF ro
             THEN Result(<<>>, remaining, ErrReadOnly, st)
             ELSE IF unpacked.err # NoError
             THEN Result(<<>>, remaining, ErrMalformed, st)
             ELSE Result(<<>>, remaining, NoError,
                         setAllowListStatus(st, unpacked.address, unpacked.status))

modifyRunNoSelfDemotion(st, caller, in, gas, ro) ==
    IF gas < ModifyAllowListGasCost
    THEN Result(<<>>, 0, ErrInsufficientGas, st)
    ELSE LET remaining == (gas - ModifyAllowListGasCost) % GasModulus
             callerStatus == GetAllowListStatus(st, caller)
             unpacked == UnpackModifyAllowList(in)
         IN  IF ro
             THEN Result(<<>>, remaining, ErrReadOnly, st)
             ELSE IF ~IsAdmin(callerStatus)
             THEN Result(<<>>, remaining, ErrUnauthorized, st)
             ELSE IF unpacked.err # NoError
             THEN Result(<<>>, remaining, ErrMalformed, st)
             ELSE IF unpacked.address = caller /\ ~IsAdmin(unpacked.status)
             THEN Result(<<>>, remaining, ErrUnauthorized, st)
             ELSE Result(<<>>, remaining, NoError,
                         setAllowListStatus(st, unpacked.address, unpacked.status))

\* Authorization answered from the call that has just run: its caller, found
\* Admin then, is taken to be Admin still.
modifyRunCachedCaller(st, caller, in, gas, ro) ==
    IF gas < ModifyAllowListGasCost
    THEN Result(<<>>, 0, ErrInsufficientGas, st)
    ELSE LET remaining == (gas - ModifyAllowListGasCost) % GasModulus
             callerStatus == IF op = "modify" /\ err = NoError /\ caller = callerAddr
                             THEN Admin
                             ELSE GetAllowListStatus(st, caller)
             unpacked == UnpackModifyAllowList(in)
         IN  IF ro
             THEN Result(<<>>, remaining, ErrReadOnly, st)
             ELSE IF ~IsAdmin(callerStatus)
             THEN Result(<<>>, remaining, ErrUnauthorized, st)
             ELSE IF unpacked.err # NoError
             THEN Result(<<>>, remaining, ErrMalformed, st)
             ELSE Result(<<>>, remaining, NoError,
                         setAllowListStatus(st, unpacked.address, unpacked.status))

modifyRun(st, caller, in, gas, ro) ==
    IF gas < ModifyAllowListGasCost
    THEN Result(<<>>, 0, ErrInsufficientGas, st)
    ELSE LET remaining == (gas - ModifyAllowListGasCost) % GasModulus
             callerStatus == GetAllowListStatus(st, caller)
             unpacked == UnpackModifyAllowList(in)
         IN  IF ro
             THEN Result(<<>>, remaining, ErrReadOnly, st)
             ELSE IF ~IsAdmin(callerStatus)
             THEN Result(<<>>, remaining, ErrUnauthorized, st)
             ELSE IF unpacked.err # NoError
             THEN Result(<<>>, remaining, ErrMalformed, st)
             ELSE Result(<<>>, remaining, NoError,
                         setAllowListStatus(st, unpacked.address, unpacked.status))

readRunCallerSlot(st, caller, in, gas, ro) ==
    IF gas < ReadAllowListGasCost
    THEN Result(<<>>, 0, ErrInsufficientGas, st)
    ELSE LET remaining == (gas - ReadAllowListGasCost) % GasModulus
         IN  IF Len(in) # AddressLength
             THEN Result(<<>>, remaining, ErrMalformed, st)
             ELSE Result(GetAllowListStatus(st, caller), remaining, NoError, st)

readRun(st, caller, in, gas, ro) ==
    IF gas < ReadAllowListGasCost
    THEN Result(<<>>, 0, ErrInsufficientGas, st)
    ELSE LET remaining == (gas - ReadAllowListGasCost) % GasModulus
         IN  IF Len(in) # AddressLength
             THEN Result(<<>>, remaining, ErrMalformed, st)
             ELSE LET readAddress == BytesToAddress(in)
                      roleBytes == GetAllowListStatus(st, readAddress)
                  IN  Result(roleBytes, remaining, NoError, st)

(***************************************************************************)
(* The inputs the environment draws from.                                  *)
(***************************************************************************)
Addr(i) == [j \in 1..AddressLength |-> IF j = AddressLength THEN i ELSE 0]

Addrs == {Addr(i) : i \in 0..(NumAddrs - 1)}

\* A hash that is zero except for its last byte.
LastByte(b) == [i \in 1..HashLength |-> IF i = HashLength THEN b ELSE 0]

\* Role words offered as the second part of a modify input: the three roles
\* of the source and three words Valid rejects.
HashSamples == {None, Deployer, Admin, LastByte(1), LastByte(2), HashLit(3)}

WellFormed == {a \o h : a \in Addrs, h \in HashSamples}

\* Inputs of Modify Role: well formed, one byte short, one byte long, an address alone.
ModifyInputs ==
    WellFormed \cup
    { SubSeq(Addr(1) \o Admin, 1, modifyAllowListInputLength - 1),
      Addr(1) \o Admin \o <<0>>,
      Addr(1) }

\* Inputs of Read Role: an address, one byte short, one byte long, a modify input.
ReadInputs ==
    Addrs \cup
    { SubSeq(Addr(1), 2, AddressLength),
      Addr(1) \o <<0>>,
      Addr(1) \o Deployer }

ModifyGasSamples ==
    {0, ModifyAllowListGasCost - 1, ModifyAllowListGasCost, ModifyAllowListGasCost + 1, MaxGas}

ReadGasSamples ==
    {0, ReadAllowListGasCost - 1, ReadAllowListGasCost, ReadAllowListGasCost + 1, MaxGas}

\* Inputs of a Modify Role call that directly follows a successful one:
\* an address and one of the three roles.
NextInputs == {a \o r : a \in Addrs, r \in {None, Deployer, Admin}}

AdminLists == UNION {[1..n -> Addrs] : n \in 0..MaxAdmins}

\* The (address, role word) pair a well-formed modify input was built from.
Intended == [in \in WellFormed |-> CHOOSE p \in Addrs \X HashSamples : in = p[1] \o p[2]]

Record(a, r) == [x \in DOMAIN lastWrite \cup {a} |-> IF x = a THEN r ELSE lastWrite[x]]

RECURSIVE RecordAdmins(_, _, _)
RecordAdmins(lw, admins, i) ==
    IF i > Len(admins) THEN lw
    ELSE RecordAdmins([x \in DOMAIN lw \cup {admins[i]} |->
                          IF x = admins[i] THEN Admin ELSE lw[x]], admins, i + 1)

(***************************************************************************)
(* The state machine.                                                      *)
(***************************************************************************)
Init ==
    /\ state = <<>>
    /\ op = "none"
    /\ callerAddr = Zeros(AddressLength)
    /\ input = <<>>
    /\ suppliedGas = 0
    /\ readOnly = FALSE
    /\ ret = <<>>
    /\ remainingGas = 0
    /\ err = NoError
    /\ args = <<>>
    /\ seq = "fresh"
    /\ lastWrite = <<>>

\* The host runs one entry point at a time, to completion: a call starts only
\* when the previous one has returned.
ConfigureCall(admins) ==
    /\ op = "none"
    /\ state' = Configure(state, admins)
    /\ op' = "configure"
    /\ callerAddr' = Zeros(AddressLength)
    /\ input' = <<>>
    /\ suppliedGas' = 0
    /\ readOnly' = FALSE
    /\ ret' = <<>>
    /\ remainingGas' = 0
    /\ err' = NoError
    /\ args' = admins
    /\ seq' = "fresh"
    /\ lastWrite' = RecordAdmins(lastWrite, admins, 1)

\* One run of the modify precompile on the current storage.
RunModify(caller, in, gas, ro) ==
    \E r \in {modifyRun(state, caller, in, gas, ro)} :
        /\ state' = r.state
        /\ op' = "modify"
        /\ callerAddr' = caller
        /\ input' = in
        /\ suppliedGas' = gas
        /\ readOnly' = ro
        /\ ret' = r.ret
        /\ remainingGas' = r.remainingGas
        /\ err' = r.err
        /\ args' = <<>>
        /\ lastWrite' = IF r.err = NoError /\ in \in WellFormed
                        THEN Record(Intended[in][1], Intended[in][2])
                        ELSE lastWrite

ModifyRole(caller, in, gas, ro) ==
    /\ op = "none"
    /\ RunModify(caller, in, gas, ro)
    /\ seq' = "fresh"

\* The host dispatches the call that has just run once more, unchanged.
ModifyRoleAgain ==
    /\ op = "modify"
    /\ RunModify(callerAddr, input, suppliedGas, readOnly)
    /\ seq' = "repeat"

\* The host dispatches a further Modify Role call directly after a successful one.
ModifyRoleNext(caller, in, gas, ro) ==
    /\ op = "modify"
    /\ err = NoError
    /\ RunModify(caller, in, gas, ro)
    /\ seq' = "next"

ReadRole(caller, in, gas, ro) ==
    /\ op = "none"
    /\ \E r \in {readRun(state, caller, in, gas, ro)} :
        /\ state' = r.state
        /\ op' = "read"
        /\ callerAddr' = caller
        /\ input' = in
        /\ suppliedGas' = gas
        /\ readOnly' = ro
        /\ ret' = r.ret
        /\ remainingGas' = r.remainingGas
        /\ err' = r.err
        /\ args' = <<>>
        /\ seq' = "fresh"
        /\ UNCHANGED lastWrite

\* A user of the role model asks the three predicates about a role word;
\* ret holds the answers of Valid, IsAdmin and CanDeploy in this order.
CheckRole(s) ==
    /\ op = "none"
    /\ op' = "role"
    /\ args' = s
    /\ ret' = <<Valid(s), IsAdmin(s), CanDeploy(s)>>
    /\ callerAddr' = Zeros(AddressLength)
    /\ input' = <<>>
    /\ suppliedGas' = 0
    /\ readOnly' = FALSE
    /\ remainingGas' = 0
    /\ err' = NoError
    /\ seq' = "fresh"
    /\ UNCHANGED <<state, lastWrite>>

PackCall(address, status) ==
    /\ op = "none"
    /\ \E r \in {PackModifyAllowList(address, status)} :
        /\ ret' = r.input
        /\ err' = r.err
    /\ op' = "pack"
    /\ args' = <<address, status>>
    /\ callerAddr' = Zeros(AddressLength)
    /\ input' = <<>>
    /\ suppliedGas' = 0
    /\ readOnly' = FALSE
    /\ remainingGas' = 0
    /\ seq' = "fresh"
    /\ UNCHANGED <<state, lastWrite>>

\* The host takes the results of the call; the storage stays as the call left it.
Return ==
    /\ op # "none"
    /\ op' = "none"
    /\ callerAddr' = Zeros(AddressLength)
    /\ input' = <<>>
    /\ suppliedGas' = 0
    /\ readOnly' = FALSE
    /\ ret' = <<>>
    /\ remainingGas' = 0
    /\ err' = NoError
    /\ args' = <<>>
    /\ seq' = "fresh"
    /\ UNCHANGED <<state, lastWrite>>

\* The guards op = "none" and op = "modify" are those of the actions; stated
\* ahead of the quantifiers they keep TLC from enumerating arguments in
\* states where no call can start.
Next ==
    \/ op = "none" /\ \E admins \in AdminLists : ConfigureCall(admins)
    \/ op = "none" /\
          \E caller \in Addrs, in \in ModifyInputs, gas \in ModifyGasSamples, ro \in BOOLEAN :
             ModifyRole(caller, in, gas, ro)
    \/ ModifyRoleAgain
    \/ (op = "modify" /\ err = NoError) /\
          \E caller \in Addrs, in \in NextInputs, ro \in BOOLEAN :
             ModifyRoleNext(caller, in, ModifyAllowListGasCost, ro)
    \/ op = "none" /\
          \E caller \in Addrs, in \in ReadInputs, gas \in ReadGasSamples, ro \in BOOLEAN :
             ReadRole(caller, in, gas, ro)
    \/ op = "none" /\ \E s \in HashSamples : CheckRole(s)
    \/ op = "none" /\ \E a \in Addrs, s \in HashSamples : PackCall(a, s)
    \/ Return

Spec == Init /\ [][Next]_vars

TypeOK ==
    /\ op \in {"none", "configure", "modify", "read", "role", "pack"}
    /\ remainingGas \in 0..MaxGas
    /\ err \in {NoError, ErrInsufficientGas, ErrReadOnly, ErrUnauthorized, ErrMalformed,
               ErrUnexpectedStatus}

(***************************************************************************)
(* Vocabulary of the properties.                                           *)
(***************************************************************************)
Roles == {None, Deployer, Admin}

\* Modify inputs that carry a valid (target address, role) pair.
ValidPairInputs == {a \o r : a \in Addrs, r \in Roles}

TargetOf(in) == SubSeq(in, 1, AddressLength)

RoleWordOf(in) == SubSeq(in, AddressLength + 1, Len(in))

RolesUnchanged ==
    /\ state' = state
    /\ \A a \in Addrs : GetAllowListStatus(state', a) = GetAllowListStatus(state, a)

GasSufficient(cost) == suppliedGas' >= cost

(***************************************************************************)
(* C1.  As stated: Modify Role called by a caller whose stored role is     *)
(* None or Deployer, with a valid (target, role) pair as input, fails with *)
(* Unauthorized and leaves every role unchanged.                           *)
(***************************************************************************)
C1_Original ==
    [][ ( /\ op' = "modify"
          /\ GetAllowListStatus(state, callerAddr') \in {None, Deployer}
          /\ input' \in ValidPairInputs )
        => (err' = ErrUnauthorized /\ RolesUnchanged) ]_vars

(***************************************************************************)
(* C1, amended.  Modify Role called with sufficient gas and the read-only  *)
(* flag unset by a caller whose stored role is None or Deployer, with a    *)
(* valid (target, role) pair as input, fails with Unauthorized and leaves  *)
(* the role of every address unchanged.                                    *)
(***************************************************************************)
C1_Unauthorized ==
    [][ ( /\ op' = "modify"
          /\ GasSufficient(ModifyAllowListGasCost)
          /\ ~readOnly'
          /\ GetAllowListStatus(state, callerAddr') \in {None, Deployer}
          /\ input' \in ValidPairInputs )
        => (err' = ErrUnauthorized /\ RolesUnchanged) ]_vars

\* Scenario B: a Deployer asks to make another address Admin and is refused.
C1_Witness ==
    /\ op = "modify"
    /\ err = ErrUnauthorized
    /\ GetAllowListStatus(state, callerAddr) = Deployer
    /\ input \in ValidPairInputs
    /\ RoleWordOf(input) = Admin
    /\ TargetOf(input) # callerAddr
    /\ GetAllowListStatus(state, TargetOf(input)) # Admin

(***************************************************************************)
(* C2.  As stated: Modify Role called with the read-only flag set fails    *)
(* with ReadOnlyViolation whatever the caller's role and the input,        *)
(* returns suppliedGas - ModifyGasCost and leaves every role unchanged.    *)
(***************************************************************************)
C2_Original ==
    [][ (op' = "modify" /\ readOnly')
        => ( /\ err' = ErrReadOnly
             /\ remainingGas' = suppliedGas' - ModifyAllowListGasCost
             /\ RolesUnchanged ) ]_vars

(***************************************************************************)
(* C2, amended.  Modify Role called with suppliedGas >= ModifyGasCost and  *)
(* the read-only flag set fails with ReadOnlyViolation whatever the        *)
(* caller's role (Admin included) and the input, returns                   *)
(* suppliedGas - ModifyGasCost and leaves every role unchanged.            *)
(***************************************************************************)
C2_ReadOnly ==
    [][ ( /\ op' = "modify"
          /\ readOnly'
          /\ GasSufficient(ModifyAllowListGasCost) )
        => ( /\ err' = ErrReadOnly
             /\ remainingGas' = suppliedGas' - ModifyAllowListGasCost
             /\ RolesUnchanged ) ]_vars

\* An Admin's well-formed request is refused because the call is read-only.
C2_Witness ==
    /\ op = "modify"
    /\ readOnly
    /\ err = ErrReadOnly
    /\ GetAllowListStatus(state, callerAddr) = Admin
    /\ input \in ValidPairInputs
    /\ GetAllowListStatus(state, TargetOf(input)) # RoleWordOf(input)
    /\ remainingGas > 0

(***************************************************************************)
(* C3.  Modify Role called with sufficient gas, the read-only flag unset,  *)
(* a caller whose stored role is Admin and an input of exactly             *)
(* AddressLength + HashLength bytes carrying a valid role succeeds with    *)
(* empty output and no error, and afterwards the target's role is the role *)
(* of the input, whatever role the target had before.                      *)
(***************************************************************************)
C3_ModifySucceeds ==
    [][ ( /\ op' = "modify"
          /\ GasSufficient(ModifyAllowListGasCost)
          /\ ~readOnly'
          /\ GetAllowListStatus(state, callerAddr') = Admin
          /\ Len(input') = AddressLength + HashLength
          /\ RoleWordOf(input') \in Roles )
        => ( /\ err' = NoError
             /\ ret' = <<>>
             /\ GetAllowListStatus(state', TargetOf(input')) = RoleWordOf(input') ) ]_vars

\* Scenario A: an Admin made another address Deployer.
C3_Witness ==
    /\ op = "modify"
    /\ err = NoError
    /\ ret = <<>>
    /\ input = Addr(1) \o Deployer
    /\ callerAddr = Addr(0)
    /\ GetAllowListStatus(state, Addr(0)) = Admin
    /\ GetAllowListStatus(state, Addr(1)) = Deployer

(***************************************************************************)
(* C4.  Every call of Modify Role or Read Role that returns an error       *)
(* leaves the whole address -> role assignment as it was before the call.  *)
(***************************************************************************)
C4_ErrorsKeepState ==
    [][ (op' \in {"modify", "read"} /\ err' # NoError) => RolesUnchanged ]_vars

\* A failed Modify Role on a store that holds roles.
C4_Witness ==
    /\ op = "modify"
    /\ err = ErrMalformed
    /\ \E a \in Addrs : GetAllowListStatus(state, a) = Deployer

(***************************************************************************)
(* C5.  Gas accounting of both entry points: with suppliedGas below the    *)
(* entry point's cost the call fails with InsufficientGas and              *)
(* remainingGas = 0; otherwise, on success and on every other error,       *)
(* remainingGas = suppliedGas - cost, which is never negative and never    *)
(* more than suppliedGas.                                                  *)
(***************************************************************************)
GasAccounted(cost) ==
    /\ remainingGas \in 0..suppliedGas
    /\ IF suppliedGas < cost
       THEN err = ErrInsufficientGas /\ remainingGas = 0
       ELSE err # ErrInsufficientGas /\ remainingGas = suppliedGas - cost

C5_GasAccounting ==
    /\ op = "modify" => GasAccounted(ModifyAllowListGasCost)
    /\ op = "read" => GasAccounted(ReadAllowListGasCost)

\* An error path other than InsufficientGas that hands gas back.
C5_Witness ==
    /\ op = "modify"
    /\ err = ErrUnauthorized
    /\ remainingGas = suppliedGas - ModifyAllowListGasCost
    /\ remainingGas > 0

(***************************************************************************)
(* C6.  As stated: Modify Role or Read Role called with an input of the    *)
(* wrong length, and Modify Role called with role bytes that are none of   *)
(* the three roles, fail with MalformedInput and change no state.          *)
(***************************************************************************)
BadModifyInput(in) ==
    \/ Len(in) # AddressLength + HashLength
    \/ RoleWordOf(in) \notin Roles

C6_Original ==
    [][ ( \/ op' = "modify" /\ BadModifyInput(input')
          \/ op' = "read" /\ Len(input') # AddressLength )
        => (err' = ErrMalformed /\ RolesUnchanged) ]_vars

(***************************************************************************)
(* C6, amended.  Read Role called with sufficient gas, and Modify Role     *)
(* called with sufficient gas, the read-only flag unset and a caller whose *)
(* stored role is Admin, fail with MalformedInput when the input length    *)
(* differs from the required width, and Modify Role also when the role     *)
(* bytes are none of the three roles; in both cases no state changes.      *)
(***************************************************************************)
C6_Malformed ==
    [][ ( \/ /\ op' = "modify"
             /\ GasSufficient(ModifyAllowListGasCost)
             /\ ~readOnly'
             /\ GetAllowListStatus(state, callerAddr') = Admin
             /\ BadModifyInput(input')
          \/ /\ op' = "read"
             /\ GasSufficient(ReadAllowListGasCost)
             /\ Len(input') # AddressLength )
        => (err' = ErrMalformed /\ RolesUnchanged) ]_vars

\* An Admin's input of the right length whose role bytes are no role.
C6_Witness ==
    /\ op = "modify"
    /\ err = ErrMalformed
    /\ Len(input) = AddressLength + HashLength
    /\ RoleWordOf(input) \notin Roles
    /\ GetAllowListStatus(state, callerAddr) = Admin

(***************************************************************************)
(* C7.  The role words accepted by Modify Role and produced by Read Role   *)
(* are: all zero bytes for None, all zero but a last byte of 1 for         *)
(* Deployer, all zero but a last byte of 2 for Admin; no other word is     *)
(* accepted or produced.                                                   *)
(***************************************************************************)
SpecEncodings == {Zeros(HashLength), LastByte(1), LastByte(2)}

C7_LastByteEncoding ==
    /\ (op = "read" /\ err = NoError) => ret \in SpecEncodings
    /\ (op = "modify" /\ err = NoError) => RoleWordOf(input) \in SpecEncodings
    /\ (op = "modify" /\ err = ErrMalformed /\ Len(input) = AddressLength + HashLength)
          => RoleWordOf(input) \notin SpecEncodings

(***************************************************************************)
(* C8.  Read Role called with sufficient gas and an input of exactly       *)
(* AddressLength bytes succeeds for every caller and both values of the    *)
(* read-only flag, returns the HashLength bytes of the queried address's   *)
(* stored role, and no call of Read Role changes the role of any address.  *)
(***************************************************************************)
C8_ReadRole ==
    [][ /\ ( /\ op' = "read"
             /\ GasSufficient(ReadAllowListGasCost)
             /\ Len(input') = AddressLength )
          => ( /\ err' = NoError
               /\ Len(ret') = HashLength
               /\ ret' = GetAllowListStatus(state, input') )
        /\ op' = "read" => RolesUnchanged ]_vars

\* A caller without any role reads another address's role in a read-only call.
C8_Witness ==
    /\ op = "read"
    /\ readOnly
    /\ err = NoError
    /\ GetAllowListStatus(state, callerAddr) = None
    /\ input # callerAddr
    /\ ret = Deployer

(***************************************************************************)
(* C9.  After any sequence of Configure, Modify Role and Read Role calls   *)
(* the role of an address is the role of the most recent successful write  *)
(* to it (a successful Modify Role that targets it, or a Configure that    *)
(* lists it), and a successful Read Role of it returns that role.          *)
(***************************************************************************)
C9_LastWriteWins ==
    \A a \in DOMAIN lastWrite :
        /\ GetAllowListStatus(state, a) = lastWrite[a]
        /\ (op = "read" /\ err = NoError /\ input = a) => ret = lastWrite[a]

\* Scenario D: an address whose latest write is None is read back as None
\* while another address still holds Admin.
C9_Witness ==
    /\ op = "read"
    /\ err = NoError
    /\ input \in DOMAIN lastWrite
    /\ lastWrite[input] = None
    /\ ret = None
    /\ \E a \in DOMAIN lastWrite : lastWrite[a] = Admin

(***************************************************************************)
(* C10.  In every reachable state an address that was never the target of  *)
(* a successful Modify Role and never listed in an applied configuration   *)
(* has role None, and Read Role returns the all-zero word for it.          *)
(***************************************************************************)
C10_UnassignedIsNone ==
    \A a \in Addrs \ DOMAIN lastWrite :
        /\ GetAllowListStatus(state, a) = None
        /\ (op = "read" /\ err = NoError /\ input = a) => ret = Zeros(HashLength)

\* Read Role of a never-assigned address while other addresses hold roles.
C10_Witness ==
    /\ op = "read"
    /\ err = NoError
    /\ input \in Addrs \ DOMAIN lastWrite
    /\ ret = Zeros(HashLength)
    /\ \E a \in DOMAIN lastWrite : lastWrite[a] = Admin

(***************************************************************************)
(* C11.  As stated: calling Modify Role twice in a row with identical      *)
(* caller and input (the same call again) leaves the role assignment after *)
(* the second call as it was after the first, and the second call succeeds *)
(* if the caller still has role Admin after the first call.                *)
(***************************************************************************)
IdenticalCall ==
    /\ op = "modify"
    /\ op' = "modify"
    /\ callerAddr' = callerAddr
    /\ input' = input
    /\ suppliedGas' = suppliedGas
    /\ readOnly' = readOnly

C11_Original ==
    [][ IdenticalCall
        => ( /\ RolesUnchanged
             /\ GetAllowListStatus(state, callerAddr) = Admin => err' = NoError ) ]_vars

(***************************************************************************)
(* C11, amended.  Calling Modify Role twice in a row with identical        *)
(* arguments leaves the role assignment after the second call as it was    *)
(* after the first, and when the first call succeeded the second call      *)
(* succeeds if the caller still has role Admin after the first call.       *)
(***************************************************************************)
C11_Idempotent ==
    [][ IdenticalCall
        => ( /\ RolesUnchanged
             /\ (err = NoError /\ GetAllowListStatus(state, callerAddr) = Admin)
                   => err' = NoError ) ]_vars

\* The second of two identical successful calls by an Admin on another address.
C11_Witness ==
    /\ seq = "repeat"
    /\ op = "modify"
    /\ err = NoError
    /\ GetAllowListStatus(state, callerAddr) = Admin
    /\ TargetOf(input) # callerAddr
    /\ GetAllowListStatus(state, TargetOf(input)) = Deployer

(***************************************************************************)
(* C12.  Configure writes role Admin for every address of its list,        *)
(* whatever role the address held before, leaves every address that is not *)
(* in the list unchanged, and gives the same assignment when the list      *)
(* holds duplicates or when it is applied a second time.                   *)
(***************************************************************************)
Listed(admins) == {admins[i] : i \in 1..Len(admins)}

C12_Configure ==
    [][ op' = "configure"
        => ( /\ \A a \in Addrs :
                  GetAllowListStatus(state', a) =
                     IF a \in Listed(args') THEN Admin ELSE GetAllowListStatus(state, a)
             /\ \A k \in (DOMAIN state \cup DOMAIN state') \
                         {<<ModifyAllowListAddress, CreateAddressKey(a)>> : a \in Listed(args')} :
                  k \in DOMAIN state /\ k \in DOMAIN state' /\ state'[k] = state[k]
             /\ (\A a \in Listed(args') : GetAllowListStatus(state, a) = Admin)
                   => state' = state
             /\ Configure(state', args') = state' ) ]_vars

\* A list that names one address twice, applied while another address is Deployer.
C12_Witness ==
    /\ op = "configure"
    /\ Len(args) = 2
    /\ args[1] = args[2]
    /\ GetAllowListStatus(state, args[1]) = Admin
    /\ \E a \in Addrs : GetAllowListStatus(state, a) = Deployer

(***************************************************************************)
(* C13.  The role predicates are closed membership tests: Valid(r) is true *)
(* iff r is None, Deployer or Admin; IsAdmin(r) iff r is Admin;            *)
(* CanDeploy(r) iff r is Admin or Deployer.  Hence IsAdmin implies         *)
(* CanDeploy, CanDeploy implies Valid, and a word that is none of the      *)
(* three roles gets false from all three.                                  *)
(***************************************************************************)
C13_RolePredicates ==
    op = "role" =>
        LET r == args
            valid == ret[1]
            isAdmin == ret[2]
            canDeploy == ret[3]
        IN  /\ valid <=> (r = None \/ r = Deployer \/ r = Admin)
            /\ isAdmin <=> (r = Admin)
            /\ canDeploy <=> (r = Admin \/ r = Deployer)
            /\ isAdmin => canDeploy
            /\ canDeploy => valid
            /\ r \notin Roles => (~valid /\ ~isAdmin /\ ~canDeploy)

\* The predicates asked about Deployer: valid, may deploy, not an admin.
C13_Witness ==
    /\ op = "role"
    /\ args = Deployer
    /\ ret = <<TRUE, FALSE, TRUE>>

(***************************************************************************)
(* C14.  Modify Role evaluates its checks in the order gas, read-only,     *)
(* caller authorization, input decoding, and reports the first that fails: *)
(* with insufficient gas InsufficientGas whatever the other arguments;     *)
(* with sufficient gas and the read-only flag set ReadOnlyViolation, also  *)
(* for a non-admin caller or a malformed input; with a non-admin caller    *)
(* and a malformed input Unauthorized; MalformedInput only when the caller *)
(* is Admin.                                                               *)
(***************************************************************************)
C14_CheckOrder ==
    [][ op' = "modify"
        => LET callerIsAdmin == GetAllowListStatus(state, callerAddr') = Admin
           IN  /\ ~GasSufficient(ModifyAllowListGasCost) => err' = ErrInsufficientGas
               /\ (GasSufficient(ModifyAllowListGasCost) /\ readOnly') => err' = ErrReadOnly
               /\ (GasSufficient(ModifyAllowListGasCost) /\ ~readOnly' /\ ~callerIsAdmin)
                     => err' = ErrUnauthorized
               /\ err' = ErrMalformed
                     => ( /\ callerIsAdmin
                          /\ GasSufficient(ModifyAllowListGasCost)
                          /\ ~readOnly'
                          /\ BadModifyInput(input') ) ]_vars

\* A malformed input from a caller that is not Admin: the answer is Unauthorized.
C14_Witness ==
    /\ op = "modify"
    /\ err = ErrUnauthorized
    /\ BadModifyInput(input)
    /\ GetAllowListStatus(state, callerAddr) = Deployer
    /\ \E a \in Addrs : GetAllowListStatus(state, a) = Admin

(***************************************************************************)
(* C15.  A successful Modify Role with input (target, role) changes at     *)
(* most the role of target: every other address has the same role after    *)
(* the call as before it, at most the target's slot of the storage         *)
(* differs, and distinct addresses have distinct keys.                     *)
(***************************************************************************)
SlotOf(a) == <<ModifyAllowListAddress, CreateAddressKey(a)>>

C15_OnlyTargetChanges ==
    [][ (op' = "modify" /\ err' = NoError)
        => ( /\ \A a \in Addrs \ {TargetOf(input')} :
                  GetAllowListStatus(state', a) = GetAllowListStatus(state, a)
             /\ \A k \in (DOMAIN state \cup DOMAIN state') \ {SlotOf(TargetOf(input'))} :
                  k \in DOMAIN state /\ k \in DOMAIN state' /\ state'[k] = state[k]
             /\ \A a, b \in Addrs : a # b => CreateAddressKey(a) # CreateAddressKey(b) ) ]_vars

\* A successful write to one address while the two others hold Admin and Deployer.
C15_Witness ==
    /\ op = "modify"
    /\ err = NoError
    /\ \E a, b \in Addrs \ {TargetOf(input)} :
          /\ GetAllowListStatus(state, a) = Admin
          /\ GetAllowListStatus(state, b) = Deployer
    /\ GetAllowListStatus(state, TargetOf(input)) = None

(***************************************************************************)
(* C16.  Once no address holds role Admin, every later Modify Role call,   *)
(* by any caller with any input, fails, and the address -> role assignment *)
(* does not change again unless Configure is applied; so without Configure *)
(* no address becomes Admin or Deployer from such a state.                 *)
(***************************************************************************)
NoAdmin(st) == \A k \in DOMAIN st : st[k] # Admin

C16_NoAdminLocksOut ==
    [][ (NoAdmin(state) /\ op' # "configure")
        => ( /\ RolesUnchanged
             /\ NoAdmin(state')
             /\ op' = "modify" => err' # NoError ) ]_vars

\* After the last Admin is gone a Deployer asks to become Admin and is refused.
C16_Witness ==
    /\ op = "modify"
    /\ NoAdmin(state)
    /\ err = ErrUnauthorized
    /\ suppliedGas >= ModifyAllowListGasCost
    /\ GetAllowListStatus(state, callerAddr) = Deployer
    /\ input = callerAddr \o Admin

(***************************************************************************)
(* C17.  As stated: Modify Role has no rule beyond authorization and       *)
(* decoding; when the only Admin calls it with (self, None) or             *)
(* (self, Deployer) the call succeeds and the resulting state has no       *)
(* Admin.                                                                  *)
(***************************************************************************)
OnlyAdmin(st, c) ==
    /\ GetAllowListStatus(st, c) = Admin
    /\ \A k \in DOMAIN st : st[k] = Admin => k = SlotOf(c)

SelfDemotion ==
    /\ op' = "modify"
    /\ OnlyAdmin(state, callerAddr')
    /\ input' \in {callerAddr' \o None, callerAddr' \o Deployer}

C17_Original ==
    [][ SelfDemotion => (err' = NoError /\ NoAdmin(state')) ]_vars

(***************************************************************************)
(* C17, amended.  Modify Role has no rule beyond authorization and         *)
(* decoding; when the only Admin calls it with sufficient gas, the         *)
(* read-only flag unset and input (self, None) or (self, Deployer), the    *)
(* call succeeds and the resulting state has no Admin.                     *)
(***************************************************************************)
C17_SelfDemotion ==
    [][ (SelfDemotion /\ GasSufficient(ModifyAllowListGasCost) /\ ~readOnly')
        => ( /\ err' = NoError
             /\ NoAdmin(state')
             /\ GetAllowListStatus(state', callerAddr') = RoleWordOf(input') ) ]_vars

\* The only Admin has made itself Deployer; no Admin is left.
C17_Witness ==
    /\ op = "modify"
    /\ err = NoError
    /\ input = callerAddr \o Deployer
    /\ GetAllowListStatus(state, callerAddr) = Deployer
    /\ NoAdmin(state)

(***************************************************************************)
(* C18.  As stated: each Modify Role call is authorized by the caller's    *)
(* role in the store at the moment of the call.  An address granted Admin  *)
(* by the preceding successful call is authorized in the very next call;   *)
(* an address whose Admin role the preceding successful call revoked fails *)
(* with Unauthorized in the very next call; of two Admins that demote each *)
(* other at most the first succeeds.                                       *)
(***************************************************************************)
\* A Modify Role call by the target of the successful call right before it.
CalledByLastTarget ==
    /\ op = "modify"
    /\ err = NoError
    /\ op' = "modify"
    /\ callerAddr' = TargetOf(input)

MutualDemotion ==
    /\ CalledByLastTarget
    /\ callerAddr # TargetOf(input)
    /\ RoleWordOf(input) \in {None, Deployer}
    /\ input' \in {callerAddr \o None, callerAddr \o Deployer}

C18_Original ==
    [][ /\ (CalledByLastTarget /\ RoleWordOf(input) = Admin) => err' # ErrUnauthorized
        /\ (CalledByLastTarget /\ RoleWordOf(input) # Admin) => err' = ErrUnauthorized
        /\ MutualDemotion => err' # NoError ]_vars

(***************************************************************************)
(* C18, amended.  Each Modify Role call is authorized by the caller's role *)
(* in the store at the moment of the call.  In the very next call, made    *)
(* with sufficient gas and the read-only flag unset, an address granted    *)
(* Admin by the preceding successful call is authorized (a valid input     *)
(* succeeds), and an address whose Admin role the preceding successful     *)
(* call revoked fails with Unauthorized; whatever the gas and the flag,    *)
(* the revoked address's next call fails, so of two Admins that demote     *)
(* each other at most the first succeeds.                                  *)
(***************************************************************************)
C18_FreshAuthorization ==
    [][ /\ ( /\ CalledByLastTarget
             /\ GasSufficient(ModifyAllowListGasCost)
             /\ ~readOnly' )
          => IF RoleWordOf(input) = Admin
             THEN /\ err' # ErrUnauthorized
                  /\ input' \in ValidPairInputs => err' = NoError
             ELSE err' = ErrUnauthorized
        /\ (CalledByLastTarget /\ RoleWordOf(input) # Admin) => err' # NoError
        /\ MutualDemotion => (err' # NoError /\ RolesUnchanged) ]_vars

\* The second of two Admins' mutual demotions: its caller has just been made
\* Deployer by the Admin it now tries to demote, and is refused.
C18_Witness ==
    /\ seq = "next"
    /\ op = "modify"
    /\ err = ErrUnauthorized
    /\ ~readOnly
    /\ GetAllowListStatus(state, callerAddr) = Deployer
    /\ TargetOf(input) # callerAddr
    /\ RoleWordOf(input) = Deployer
    /\ GetAllowListStatus(state, TargetOf(input)) = Admin

(***************************************************************************)
(* C19.  From the empty store, after any sequence of Configure, Modify     *)
(* Role and Read Role calls with any callers, inputs, gas and read-only    *)
(* flags, the stored role of every address is None, Deployer or Admin: no  *)
(* invalid role word is ever written to the store.                         *)
(***************************************************************************)
C19_StoredRolesValid ==
    /\ \A k \in DOMAIN state : state[k] \in Roles
    /\ \A a \in Addrs : GetAllowListStatus(state, a) \in Roles

\* An Admin has offered an invalid role word for an address that holds a
\* role, with gas and the flag in order, while the store holds a Deployer
\* and an Admin.
C19_Witness ==
    /\ op = "modify"
    /\ ~readOnly
    /\ suppliedGas >= ModifyAllowListGasCost
    /\ GetAllowListStatus(state, callerAddr) = Admin
    /\ Len(input) = modifyAllowListInputLength
    /\ RoleWordOf(input) \notin Roles
    /\ TargetOf(input) # callerAddr
    /\ GetAllowListStatus(state, TargetOf(input)) = Deployer

(***************************************************************************)
(* C20.  PackModifyAllowList and UnpackModifyAllowList round-trip: for     *)
(* every address a and valid role r, Pack(a, r) succeeds with exactly      *)
(* AddressLength + HashLength bytes and Unpack(Pack(a, r)) is (a, r) with  *)
(* no error; for every invalid role Pack returns an error and no bytes;    *)
(* so every input Pack produces is accepted by Modify Role's decoder.      *)
(***************************************************************************)
C20_PackUnpackRoundTrip ==
    op = "pack" =>
        /\ IF args[2] \in Roles
           THEN /\ err = NoError
                /\ Len(ret) = AddressLength + HashLength
                /\ UnpackModifyAllowList(ret) =
                      [address |-> args[1], status |-> args[2], err |-> NoError]
           ELSE /\ err # NoError
                /\ ret = <<>>
        /\ err = NoError =>
              /\ UnpackModifyAllowList(ret).err = NoError
              /\ \A caller \in Addrs :
                    modifyRun(state, caller, ret, ModifyAllowListGasCost, FALSE).err
                       \in {NoError, ErrUnauthorized}

\* A non-zero address packed with the Admin role, and decoded back.
C20_Witness ==
    /\ op = "pack"
    /\ err = NoError
    /\ args = <<Addr(1), Admin>>
    /\ Len(ret) = AddressLength + HashLength
    /\ UnpackModifyAllowList(ret).address = Addr(1)
    /\ UnpackModifyAllowList(ret).status = Admin

====
